---- MODULE Spec2Model ----
(***************************************************************************)
(* Authentication and session-lifecycle core of the restaurant REST API:   *)
(* token issuance and validation (JWTAuthMiddleware), the Redis revocation *)
(* ledger (RedisTokenBlacklistService), the login-attempt guard            *)
(* (RedisLoginAttemptService) and the orchestration in AuthUseCase.        *)
(*                                                                         *)
(* Time is a discrete clock `now`.  A Redis key written with a TTL d at    *)
(* instant t is stored as its expiry instant t+d and is present while      *)
(* now < t+d; a JWT with expiry e validates while now < e.  Every handler  *)
(* runs at one instant.  Durations are in clock ticks; the shipped         *)
(* defaults (15m, 24h, 168h) are scaled to the smallest integers that keep *)
(* their order.                                                            *)
(*                                                                         *)
(* Every store or repository round trip of a handler may fail: a handler   *)
(* step picks the set S of its calls that fail; a failed call has no       *)
(* effect and returns an error to its caller.  A behaviour has at most     *)
(* MaxFaults failed calls.                                                 *)
(***************************************************************************)
EXTENDS Integers, Sequences, FiniteSets, TLC

\* ---------------------------------------------------------------- bounds
MaxUsers == 2
MaxTokens == 6
MaxTime == 4
MaxEvTokens == 3
\* token capacity of the specifications that do not follow rotation chains
FewTokens == 4
\* failed store / repository calls in one behaviour
MaxFaults == 1
\* concurrent ledger calls, and the tokens they are about
MaxProcs == 2
RaceTokens == 3
\* the longest TTL handed to a single TrackUserToken call
MaxTTL == 3
\* access tokens signed for the round trip through the codec
CodecTokens == 2
\* ACCOUNT_LOCKOUT_MAX_ATTEMPTS, the shipped default
MaxAttempts == 5

Usernames == {"alice", "bob"}
Passwords == {"pw1", "pw2"}
Emails == {"a@x", "b@x"}
Roles == {"admin", "manager", "staff", "customer"}

\* ------------------------------------------------- configuration defaults
AccessTokenTTL == 2
RefreshTokenTTL == 4
LockoutDuration == 2
DefaultBlacklistTTL == 3
VerifyTokenTTL == 3
CooldownTTL == 1
\* "Đảm bảo TTL ít nhất 1 giây": the smallest TTL the ledger writes
MinTTL == 1

UserIds == 1..MaxUsers
JTIs == 1..MaxTokens
EvIds == 1..MaxEvTokens
\* the empty / unparsable token string, the empty JTI and the empty user id
NoToken == 0

VARIABLES
    now,        \* the clock
    users,      \* principal repository: sequence of users, id = index
    tokens,     \* every token signed so far: jti = index
    evTokens,   \* every email-verification token generated so far: its user,
                \* when and by which call, and how that call went on
    store,      \* the shared TTL-keyed store (Redis)
    last,       \* what the latest handler call was given and returned
    exchanged,  \* refresh JTIs some RefreshToken call exchanged for a new pair
    revoked,    \* JTIs some successful RevokeAllUserTokens blacklisted
    streak,     \* per username: failed Logins in a row at the current instant
    faults,     \* failed calls so far
    inflight    \* per client: the ledger call it is in the middle of

vars == <<now, users, tokens, evTokens, store, last, exchanged, revoked, streak, faults,
          inflight>>

Max(a, b) == IF a >= b THEN a ELSE b

\* ------------------------------------------------------------ TTL'd keys
\* a key is stored as its expiry instant; 0 is "no such key"
NoKey == 0
Present(e) == e > now
\* redis TTL: remaining time, -2 when the key does not exist
TTLOf(e) == IF Present(e) THEN e - now ELSE 0 - 2

\* ------------------------------------------------------------ TokenCodec
\* access tokens carry UserID (and no Subject), refresh tokens carry Subject
Claims(t) ==
    [ID |-> t,
     Subject |-> IF tokens[t].kind = "refresh" THEN tokens[t].sub ELSE NoToken,
     UserID |-> IF tokens[t].kind = "access" THEN tokens[t].sub ELSE NoToken,
     Role |-> tokens[t].role,
     ExpiresAt |-> tokens[t].exp]

Signed(t) == t \in 1..Len(tokens)
\* a parse that checks the signature and lets any expiry pass
ValidateTokenAnyTime(t) == Signed(t)
\* jwt.ParseWithClaims: signature and expiry are both checked
ValidateToken(t) == Signed(t) /\ now < tokens[t].exp
\* jwt.WithoutClaimsValidation: signature only
ParseTokenIgnoreExpiry(t) == Signed(t)

GetTokenRemainingTime(claims) ==
    IF claims.ExpiresAt - now < 0 THEN 0 ELSE claims.ExpiresAt - now

\* an access token signed without its Role
GenerateAccessTokenNoRole(uid, role) ==
    [sub |-> uid, kind |-> "access", role |-> "", exp |-> now + AccessTokenTTL]
\* the token GenerateAccessTokenWithInfo signs for a user
GenerateAccessTokenWithInfo(uid, role) ==
    [sub |-> uid, kind |-> "access", role |-> role, exp |-> now + AccessTokenTTL]
\* a refresh token signed without its Subject
GenerateRefreshTokenNoSubject(uid) ==
    [sub |-> NoToken, kind |-> "refresh", role |-> "", exp |-> now + RefreshTokenTTL]
\* the token GenerateRefreshTokenWithInfo signs for a user
GenerateRefreshTokenWithInfo(uid) ==
    [sub |-> uid, kind |-> "refresh", role |-> "", exp |-> now + RefreshTokenTTL]

\* ------------------------------------------------------ RevocationLedger
Blacklist(s, jti, ttl) ==
    IF jti = NoToken THEN s
    ELSE [s EXCEPT !.blacklist[jti] = now + Max(ttl, MinTTL)]

IsBlacklisted(s, jti) == jti # NoToken /\ Present(s.blacklist[jti])

\* EXPIRE in every call, whatever the TTL the set has
TrackAlwaysExpires(s, uid, jti, ttl) ==
    LET t == Max(ttl, MinTTL)
        members == IF Present(s.userTokensExp[uid]) THEN s.userTokens[uid] ELSE {}
    IN  [s EXCEPT !.userTokens[uid] = members \cup {jti},
                  !.userTokensExp[uid] = now + t,
                  !.tokenUser[jti] = [uid |-> uid, exp |-> now + t]]

TrackUserToken(s, uid, jti, ttl) ==
    LET t == Max(ttl, MinTTL)
        currentTTL == TTLOf(s.userTokensExp[uid])
        members == IF Present(s.userTokensExp[uid]) THEN s.userTokens[uid] ELSE {}
    IN  [s EXCEPT !.userTokens[uid] = members \cup {jti},
                  !.userTokensExp[uid] =
                      IF currentTTL < 0 \/ t > currentTTL THEN now + t ELSE @,
                  !.tokenUser[jti] = [uid |-> uid, exp |-> now + t]]

\* SMembers of user_tokens:{uid}
UserTokens(s, uid) ==
    IF Present(s.userTokensExp[uid]) THEN s.userTokens[uid] ELSE {}

GetUserActiveTokens(s, uid) == {j \in UserTokens(s, uid) : ~IsBlacklisted(s, j)}

\* SCard of user_tokens:{uid}
GetUserActiveTokenCount(s, uid) == Cardinality(UserTokens(s, uid))

NoMapping == [uid |-> NoToken, exp |-> NoKey]

\* DEL of the whole set where SREM of the one member is meant
UntrackDeletesSet(s, uid, jti) ==
    IF uid = NoToken \/ jti = NoToken THEN s
    ELSE [s EXCEPT !.userTokens[uid] = {},
                   !.userTokensExp[uid] = NoKey,
                   !.tokenUser[jti] = NoMapping]

\* SPOP where SREM is meant: some member goes when jti is not one
UntrackPops(s, uid, jti) ==
    IF uid = NoToken \/ jti = NoToken THEN s
    ELSE LET set == UserTokens(s, uid)
             rest == IF jti \in set \/ set = {} THEN set \ {jti}
                     ELSE set \ {CHOOSE m \in set : TRUE}
         IN  [s EXCEPT !.userTokens[uid] = rest,
                       !.userTokensExp[uid] = IF rest = {} THEN NoKey ELSE @,
                       !.tokenUser[jti] = NoMapping]

UntrackUserToken(s, uid, jti) ==
    IF uid = NoToken \/ jti = NoToken THEN s
    ELSE LET rest == UserTokens(s, uid) \ {jti}
         IN  [s EXCEPT !.userTokens[uid] = rest,
                       \* redis drops a set key with its last member
                       !.userTokensExp[uid] = IF rest = {} THEN NoKey ELSE @,
                       !.tokenUser[jti] = NoMapping]

\* the pipeline without its final DEL of user_tokens:{uid}
RevokeAllKeepsSet(s, uid) ==
    LET toks == UserTokens(s, uid)
    IN  IF toks = {} THEN s
        ELSE [s EXCEPT
                !.blacklist = [j \in JTIs |->
                    IF j \in toks THEN now + DefaultBlacklistTTL ELSE @[j]],
                !.tokenUser = [j \in JTIs |->
                    IF j \in toks THEN NoMapping ELSE @[j]]]

RevokeAllUserTokens(s, uid) ==
    LET toks == UserTokens(s, uid)
    IN  IF toks = {} THEN s
        ELSE [s EXCEPT
                !.blacklist = [j \in JTIs |->
                    IF j \in toks THEN now + DefaultBlacklistTTL ELSE @[j]],
                !.tokenUser = [j \in JTIs |->
                    IF j \in toks THEN NoMapping ELSE @[j]],
                !.userTokens[uid] = {},
                !.userTokensExp[uid] = NoKey]

\* ----------------------------------------------------- LoginAttemptGuard
\* every operation of a guard that is not enabled returns zero or false
\* without a store call
NoCounter == [n |-> 0, exp |-> NoKey]
Attempts(s, u) ==
    IF ~s.guardEnabled THEN 0
    ELSE IF Present(s.attempts[u].exp) THEN s.attempts[u].n ELSE 0

IsLocked(s, u) == s.guardEnabled /\ Present(s.locked[u])

Lock(s, u) ==
    IF ~s.guardEnabled THEN s ELSE [s EXCEPT !.locked[u] = now + LockoutDuration]

\* a counter read and written back as a fresh key: SET to 1 whatever it held
IncrCounterFresh(s, u) ==
    [s EXCEPT !.attempts[u] = [n |-> 1, exp |-> now + LockoutDuration]]

\* the INCR + EXPIRE pipeline alone
IncrCounter(s, u) ==
    [s EXCEPT !.attempts[u] = [n |-> Attempts(s, u) + 1, exp |-> now + LockoutDuration]]

\* fLock: the SET of the lock key fails
\* counting whether the guard is enabled or not
IncrementAttemptsAlways(s, u, fLock) ==
    LET s1 == IncrCounter(s, u)
    IN  IF s1.attempts[u].n >= MaxAttempts /\ ~fLock
        THEN [s1 EXCEPT !.locked[u] = now + LockoutDuration]
        ELSE s1

IncrementAttempts(s, u, fLock) ==
    IF ~s.guardEnabled THEN s
    ELSE LET s1 == IncrCounter(s, u)
         IN  IF Attempts(s1, u) >= MaxAttempts /\ ~fLock THEN Lock(s1, u) ELSE s1

ResetAttempts(s, u) ==
    IF ~s.guardEnabled THEN s
    ELSE [s EXCEPT !.attempts[u] = NoCounter, !.locked[u] = NoKey]

GetRemainingLockTime(s, u) ==
    IF ~s.guardEnabled \/ TTLOf(s.locked[u]) < 0 THEN 0 ELSE TTLOf(s.locked[u])

\* ----------------------------------------------- EmailVerificationLedger
\* the SET + SADD + EXPIRE pipeline for a fresh token v of user uid
GenerateToken(s, uid, v) ==
    [s EXCEPT !.verify[v] = [uid |-> uid, exp |-> now + VerifyTokenTTL],
              !.verifyUser[uid] =
                  (IF Present(s.verifyUserExp[uid]) THEN @ ELSE {}) \cup {v},
              !.verifyUserExp[uid] = now + VerifyTokenTTL]

\* a cooldown marker that is gone as soon as it is written
SetResendCooldownNoTTL(s, uid) == [s EXCEPT !.cooldown[uid] = now]

SetResendCooldown(s, uid) == [s EXCEPT !.cooldown[uid] = now + CooldownTTL]

\* GET of email_verify:{token}: the user of a token that is still stored
ValidateEmailToken(s, v) == IF Present(s.verify[v].exp) THEN s.verify[v].uid ELSE NoToken

\* SMEMBERS of the user's set, then DEL of every member's key and of the set
InvalidateAllUserTokens(s, uid) ==
    LET members == IF Present(s.verifyUserExp[uid]) THEN s.verifyUser[uid] ELSE {}
    IN  [s EXCEPT !.verify = [v \in EvIds |-> IF v \in members THEN NoMapping ELSE @[v]],
                  !.verifyUser[uid] = {},
                  !.verifyUserExp[uid] = NoKey]

\* TTL of the cooldown marker: resending is allowed when there is none
CanResend(s, uid) == TTLOf(s.cooldown[uid]) < 0

\* the record of one generated verification token
Generated(uid, by, ok, cool) ==
    [uid |-> uid, at |-> now, by |-> by, ok |-> ok, cool |-> cool]

\* ---------------------------------------------------- principal repository
FindByUsername(u) ==
    IF \E i \in 1..Len(users) : users[i].username = u
    THEN CHOOSE i \in 1..Len(users) : users[i].username = u
    ELSE NoToken
ExistsByUsername(u) == \E i \in 1..Len(users) : users[i].username = u
\* an email lookup that never finds anything
ExistsByEmailNever(e) == FALSE
ExistsByEmail(e) == \E i \in 1..Len(users) : users[i].email = e
\* bcrypt.CompareHashAndPassword of a plaintext against the stored hash
Verify(pw, hash) == pw = hash
NewUser(u, e, pw) ==
    [username |-> u, email |-> e, pw |-> pw, role |-> "customer",
     active |-> TRUE, verified |-> FALSE]

\* ------------------------------------------------------------------ Init
EmptyStore ==
    [blacklist |-> [j \in JTIs |-> NoKey],
     userTokens |-> [i \in UserIds |-> {}],
     userTokensExp |-> [i \in UserIds |-> NoKey],
     tokenUser |-> [j \in JTIs |-> NoMapping],
     attempts |-> [u \in Usernames |-> NoCounter],
     locked |-> [u \in Usernames |-> NoKey],
     verify |-> [v \in EvIds |-> NoMapping],
     verifyUser |-> [i \in UserIds |-> {}],
     verifyUserExp |-> [i \in UserIds |-> NoKey],
     cooldown |-> [i \in UserIds |-> NoKey],
     \* the enabled switch the login-attempt guard is constructed with
     guardEnabled |-> TRUE]

\* the clients whose ledger calls interleave, and a client between calls
Procs == 1..MaxProcs
NoCall ==
    [pc |-> "idle", uid |-> NoToken, jti |-> NoToken, ttl |-> 0, currentTTL |-> 0,
     members |-> {}, name |-> "", pw |-> "", n |-> 0]

Idle ==
    [op |-> "none", res |-> "", name |-> "", uid |-> 0, tok |-> 0,
     old |-> 0, minted |-> {}, pre |-> {}, flags |-> {}, failed |-> {},
     remaining |-> 0, email |-> ""]

Init ==
    /\ now = 0
    /\ users = <<>>
    /\ tokens = <<>>
    /\ evTokens = <<>>
    /\ store = EmptyStore
    /\ last = Idle
    /\ exchanged = {}
    /\ revoked = {}
    /\ streak = [u \in Usernames |-> 0]
    /\ faults = 0
    /\ inflight = [p \in Procs |-> NoCall]

\* the same start with the login-attempt guard constructed as disabled
InitGuardDisabled ==
    /\ now = 0
    /\ users = <<>>
    /\ tokens = <<>>
    /\ evTokens = <<>>
    /\ store = [EmptyStore EXCEPT !.guardEnabled = FALSE]
    /\ last = Idle
    /\ exchanged = {}
    /\ revoked = {}
    /\ streak = [u \in Usernames |-> 0]
    /\ faults = 0
    /\ inflight = [p \in Procs |-> NoCall]

\* --------------------------------------------------------------- the clock
\* keys whose expiry has been reached are gone
Expire(s, t) ==
    [blacklist |-> [j \in JTIs |-> IF s.blacklist[j] <= t THEN NoKey ELSE s.blacklist[j]],
     userTokens |-> [i \in UserIds |->
                        IF s.userTokensExp[i] <= t THEN {} ELSE s.userTokens[i]],
     userTokensExp |-> [i \in UserIds |->
                        IF s.userTokensExp[i] <= t THEN NoKey ELSE s.userTokensExp[i]],
     tokenUser |-> [j \in JTIs |->
                        IF s.tokenUser[j].exp <= t THEN NoMapping ELSE s.tokenUser[j]],
     attempts |-> [u \in Usernames |->
                        IF s.attempts[u].exp <= t THEN NoCounter ELSE s.attempts[u]],
     locked |-> [u \in Usernames |-> IF s.locked[u] <= t THEN NoKey ELSE s.locked[u]],
     verify |-> [v \in EvIds |->
                        IF s.verify[v].exp <= t THEN NoMapping ELSE s.verify[v]],
     verifyUser |-> [i \in UserIds |->
                        IF s.verifyUserExp[i] <= t THEN {} ELSE s.verifyUser[i]],
     verifyUserExp |-> [i \in UserIds |->
                        IF s.verifyUserExp[i] <= t THEN NoKey ELSE s.verifyUserExp[i]],
     cooldown |-> [i \in UserIds |-> IF s.cooldown[i] <= t THEN NoKey ELSE s.cooldown[i]],
     guardEnabled |-> s.guardEnabled]

\* no call is in progress: the previous response has been delivered
Ready == last.op = "none"

Tick ==
    /\ Ready
    /\ now < MaxTime
    /\ now' = now + 1
    /\ store' = Expire(store, now + 1)
    /\ last' = last
    /\ streak' = [u \in Usernames |-> 0]
    \* the history of tokens that have expired no longer matters
    /\ exchanged' = {j \in exchanged : tokens[j].exp > now + 1}
    /\ revoked' = {j \in revoked : tokens[j].exp > now + 1}
    /\ UNCHANGED <<users, tokens, evTokens, faults, inflight>>

\* ------------------------------------------------------- AuthOrchestrator
\* the sets of calls of a handler that may fail in this step
Faults(sc, L) ==
    {S \in SUBSET (L \cap sc.calls) : Cardinality(S) <= MaxFaults - faults}

\* what a handler call reports: the operation, its inputs, its result,
\* what it observed on its way (flags) and which of its calls failed
Report(op, res, name, uid, tok, old, minted, pre, flags) ==
    [op |-> op, res |-> res, name |-> name, uid |-> uid, tok |-> tok,
     old |-> old, minted |-> minted, pre |-> pre, flags |-> flags,
     failed |-> {}, remaining |-> 0, email |-> ""]

\* the handler returns: S are the calls that failed, E the calls it made
Respond(r, S, E) ==
    /\ S \subseteq E
    /\ last' = [r EXCEPT !.failed = S]
    /\ faults' = faults + Cardinality(S)
    /\ UNCHANGED inflight

Flag(b, f) == IF b THEN {f} ELSE {}

\* a failed verification-token or email step ends the call: nothing is signed
generateAuthResultAfterEmail(s, uid, role, S) ==
    IF S \cap {"generateToken", "sendEmail"} # {}
    THEN [store |-> s, tokens |-> tokens, access |-> NoToken, refresh |-> NoToken]
    ELSE LET a == Len(tokens) + 1
             r == Len(tokens) + 2
             s1 == IF "trackAccess" \in S THEN s
                   ELSE TrackUserToken(s, uid, a, AccessTokenTTL)
             s2 == IF "trackRefresh" \in S THEN s1
                   ELSE TrackUserToken(s1, uid, r, RefreshTokenTTL)
         IN  [store |-> s2,
              tokens |-> tokens \o <<GenerateAccessTokenWithInfo(uid, role),
                                     GenerateRefreshTokenWithInfo(uid)>>,
              access |-> a, refresh |-> r]

\* a failed tracking call ends the call: nothing is signed
generateAuthResultFailClosed(s, uid, role, S) ==
    IF S \cap {"trackAccess", "trackRefresh"} # {}
    THEN [store |-> s, tokens |-> tokens, access |-> NoToken, refresh |-> NoToken]
    ELSE LET a == Len(tokens) + 1
             r == Len(tokens) + 2
             s1 == TrackUserToken(s, uid, a, AccessTokenTTL)
             s2 == TrackUserToken(s1, uid, r, RefreshTokenTTL)
         IN  [store |-> s2,
              tokens |-> tokens \o <<GenerateAccessTokenWithInfo(uid, role),
                                     GenerateRefreshTokenWithInfo(uid)>>,
              access |-> a, refresh |-> r]

\* generateAuthResult: sign an access and a refresh token for the user and
\* track both; a failed tracking call is dropped
generateAuthResult(s, uid, role, S) ==
    LET a == Len(tokens) + 1
        r == Len(tokens) + 2
        s1 == IF "trackAccess" \in S THEN s
              ELSE TrackUserToken(s, uid, a, AccessTokenTTL)
        s2 == IF "trackRefresh" \in S THEN s1
              ELSE TrackUserToken(s1, uid, r, RefreshTokenTTL)
    IN  [store |-> s2,
         tokens |-> tokens \o <<GenerateAccessTokenWithInfo(uid, role),
                                GenerateRefreshTokenWithInfo(uid)>>,
         access |-> a, refresh |-> r]

TrackCalls == {"trackAccess", "trackRefresh"}

\* room for one more token pair
CanMint(sc) == Len(tokens) + 2 <= sc.cap

Register(sc, u, e, pw) ==
    /\ Ready
    /\ \E S \in Faults(sc, {"repo", "generateToken", "setCooldown", "sendEmail"}
                             \cup TrackCalls) :
      IF "repo" \in S
        THEN /\ Respond([Report("Register", "RepoError", u, 0, 0, 0, {}, {}, {})
                          EXCEPT !.email = e], S, {"repo"})
             /\ UNCHANGED <<now, users, tokens, evTokens, store, exchanged, revoked, streak>>
      ELSE IF ExistsByUsername(u)
        THEN /\ Respond([Report("Register", "UsernameExists", u, 0, 0, 0, {}, {}, {})
                          EXCEPT !.email = e], S, {})
             /\ UNCHANGED <<now, users, tokens, evTokens, store, exchanged, revoked, streak>>
      ELSE IF ExistsByEmail(e)
        THEN /\ Respond([Report("Register", "EmailExists", u, 0, 0, 0, {}, {}, {})
                          EXCEPT !.email = e], S, {})
             /\ UNCHANGED <<now, users, tokens, evTokens, store, exchanged, revoked, streak>>
      ELSE
        /\ Len(users) < MaxUsers
        /\ Len(evTokens) < MaxEvTokens
        /\ CanMint(sc)
        /\ LET uid == Len(users) + 1
               v == Len(evTokens) + 1
               gen == "generateToken" \notin S
               \* verification token, cooldown and email are best effort
               s1 == IF gen THEN GenerateToken(store, uid, v) ELSE store
               s2 == IF gen /\ "setCooldown" \notin S
                     THEN SetResendCooldown(s1, uid) ELSE s1
               g == generateAuthResult(s2, uid, "customer", S)
           IN  /\ users' = Append(users, NewUser(u, e, pw))
               /\ evTokens' = IF gen
                              THEN Append(evTokens,
                                          Generated(uid, "Register", TRUE,
                                                    "setCooldown" \notin S))
                              ELSE evTokens
               /\ store' = g.store
               /\ tokens' = g.tokens
               /\ Respond([Report("Register", "ok", u, uid, 0, 0,
                                  {g.access, g.refresh}, {}, {})
                             EXCEPT !.email = e],
                          S, {"generateToken"} \cup TrackCalls \cup
                             (IF gen THEN {"setCooldown", "sendEmail"} ELSE {}))
               /\ UNCHANGED <<now, exchanged, revoked, streak>>

\* the Login call failed: one more in the row of failures of this username
Failed(u) == [streak EXCEPT ![u] = IF @ < MaxAttempts THEN @ + 1 ELSE @]

\* the attempt counter is bounded in the model
CanCount(u) == Attempts(store, u) <= MaxAttempts

\* the failed-attempt path of Login: count, and lock at the threshold
CountFailure(s, u, S) ==
    IF "incr" \in S THEN s ELSE IncrementAttempts(s, u, "lock" \in S)

\* the guard calls CountFailure makes from store s
CountCalls(s, u, S) ==
    {"incr"} \cup Flag("incr" \notin S /\ Attempts(s, u) + 1 >= MaxAttempts, "lock")

\* what is true of the credentials when Login is called
Credentials(u, pw) ==
    LET uid == FindByUsername(u)
    IN  IF uid = NoToken THEN "absent"
        ELSE IF ~users[uid].active THEN "inactive"
        ELSE IF ~Verify(pw, users[uid].pw) THEN "mismatch"
        ELSE "match"

Login(sc, u, pw) ==
    /\ Ready
    /\ \E S \in Faults(sc, {"isLocked", "lockTTL", "repo", "incr", "lock", "reset"}
                             \cup TrackCalls) :
      LET uid == FindByUsername(u)
          facts == {Credentials(u, pw)} \cup Flag(IsLocked(store, u), "locked")
                     \cup Flag(Attempts(store, u) > 0, "counted")
      IN
      IF "isLocked" \notin S /\ IsLocked(store, u)
      THEN \* locked: rejected before any credential check
          /\ Respond([Report("Login", "AccountLocked", u, uid, 0, 0, {}, {}, facts)
                        EXCEPT !.remaining = IF "lockTTL" \in S THEN 0
                                             ELSE GetRemainingLockTime(store, u)],
                     S, {"lockTTL"})
          /\ streak' = Failed(u)
          /\ UNCHANGED <<now, users, tokens, evTokens, store, exchanged, revoked>>
      ELSE IF "repo" \in S
      THEN /\ Respond(Report("Login", "RepoError", u, uid, 0, 0, {}, {}, facts),
                      S, {"isLocked", "repo"})
           /\ streak' = Failed(u)
           /\ UNCHANGED <<now, users, tokens, evTokens, store, exchanged, revoked>>
      ELSE IF uid = NoToken
      THEN \* no such user: counted like a wrong password
        /\ CanCount(u)
        /\ store' = CountFailure(store, u, S)
        /\ Respond(Report("Login", "InvalidCredentials", u, uid, 0, 0, {}, {}, facts),
                   S, {"isLocked"} \cup CountCalls(store, u, S))
        /\ streak' = Failed(u)
        /\ UNCHANGED <<now, users, tokens, evTokens, exchanged, revoked>>
      ELSE IF ~users[uid].active
      THEN /\ Respond(Report("Login", "UserInactive", u, uid, 0, 0, {}, {}, facts),
                      S, {"isLocked"})
           /\ streak' = Failed(u)
           /\ UNCHANGED <<now, users, tokens, evTokens, store, exchanged, revoked>>
      ELSE IF ~Verify(pw, users[uid].pw)
      THEN
        /\ CanCount(u)
        /\ store' = CountFailure(store, u, S)
        /\ Respond(Report("Login", "InvalidCredentials", u, uid, 0, 0, {}, {}, facts),
                   S, {"isLocked"} \cup CountCalls(store, u, S))
        /\ streak' = Failed(u)
        /\ UNCHANGED <<now, users, tokens, evTokens, exchanged, revoked>>
      ELSE
        /\ CanMint(sc)
        /\ LET s1 == IF "reset" \in S THEN store ELSE ResetAttempts(store, u)
               g == generateAuthResult(s1, uid, users[uid].role, S)
           IN  /\ store' = g.store
               /\ tokens' = g.tokens
               /\ Respond(Report("Login", "ok", u, uid, 0, 0,
                                 {g.access, g.refresh}, {}, facts),
                          S, {"isLocked", "reset"} \cup TrackCalls)
        /\ streak' = [streak EXCEPT ![u] = 0]
        /\ UNCHANGED <<now, users, evTokens, exchanged, revoked>>

\* the old token is blacklisted and left in the live set
RevokeOldKeepsTracking(s, userID, t, fB, fU) ==
    LET ttl == GetTokenRemainingTime(Claims(t))
    IN  IF ttl > 0 /\ ~fB THEN Blacklist(s, t, ttl) ELSE s

\* revoke one old token on behalf of userID: blacklist it for its remaining
\* life (when it has any) and untrack it; the errors of both are dropped
RevokeOld(s, userID, t, fB, fU) ==
    LET ttl == GetTokenRemainingTime(Claims(t))
        s1 == IF ttl > 0 /\ ~fB THEN Blacklist(s, t, ttl) ELSE s
    IN  IF fU THEN s1 ELSE UntrackUserToken(s1, userID, t)

RefreshToken(sc, rt, at) ==
    /\ Ready
    /\ \E S \in Faults(sc, {"isBlacklisted", "blacklist", "untrack", "blacklistOld",
                             "untrackOld", "repo"} \cup TrackCalls) :
      IF ~ValidateToken(rt)
      THEN /\ Respond(Report("RefreshToken", "InvalidToken", "", 0, rt, at, {}, {},
                             Flag(rt \in exchanged, "reuse")),
                      S, {})
           /\ UNCHANGED <<now, users, tokens, evTokens, store, exchanged, revoked, streak>>
      ELSE
        LET claims == Claims(rt)
            flags == {"valid", tokens[rt].kind} \cup Flag(rt \in exchanged, "reuse")
                       \cup Flag(IsBlacklisted(store, rt), "blacklisted")
            userID == IF claims.Subject # NoToken THEN claims.Subject ELSE claims.UserID
            hasOld == at # NoToken /\ ParseTokenIgnoreExpiry(at)
            s1 == RevokeOld(store, userID, rt, "blacklist" \in S, "untrack" \in S)
            s2 == IF hasOld
                  THEN RevokeOld(s1, userID, at, "blacklistOld" \in S, "untrackOld" \in S)
                  ELSE s1
            revokeCalls == {"isBlacklisted", "blacklist", "untrack"} \cup
                           (IF hasOld
                            THEN {"untrackOld"} \cup
                                 Flag(GetTokenRemainingTime(Claims(at)) > 0, "blacklistOld")
                            ELSE {})
        IN
        IF "isBlacklisted" \notin S /\ IsBlacklisted(store, rt)
        THEN /\ Respond(Report("RefreshToken", "InvalidToken", "", userID, rt, at, {}, {},
                               flags),
                        S, {})
             /\ UNCHANGED <<now, users, tokens, evTokens, store, exchanged, revoked, streak>>
        ELSE IF "repo" \in S
        THEN /\ store' = s2
             /\ Respond(Report("RefreshToken", "RepoError", "", userID, rt, at, {}, {},
                               flags),
                        S, revokeCalls \cup {"repo"})
             /\ UNCHANGED <<now, users, tokens, evTokens, exchanged, revoked, streak>>
        ELSE IF ~users[userID].active
        THEN /\ store' = s2
             /\ Respond(Report("RefreshToken", "UserInactive", "", userID, rt, at, {}, {},
                               flags),
                        S, revokeCalls)
             /\ UNCHANGED <<now, users, tokens, evTokens, exchanged, revoked, streak>>
        ELSE
          /\ CanMint(sc)
          /\ LET g == generateAuthResult(s2, userID, users[userID].role, S)
             IN  /\ store' = g.store
                 /\ tokens' = g.tokens
                 /\ Respond(Report("RefreshToken", "ok", "", userID, rt, at,
                                   {g.access, g.refresh}, {}, flags),
                            S, revokeCalls \cup TrackCalls)
          /\ exchanged' = exchanged \cup {rt}
          /\ UNCHANGED <<now, users, evTokens, revoked, streak>>

\* a gate that lets the request through when the lookup fails
GateDecisionFailOpen(lookupErr, isBlacklisted) ==
    IF ~lookupErr /\ isBlacklisted THEN "TokenRevoked" ELSE "admitted"

\* the gate's decision for a token that validated
GateDecision(lookupErr, isBlacklisted) ==
    IF lookupErr THEN "BlacklistCheckFailed"
    ELSE IF isBlacklisted THEN "TokenRevoked"
    ELSE "admitted"

\* JWTAuthMiddleware.Middleware for a request carrying token t, of whose
\* calls those in S fail: "admitted" runs the handler behind the gate
Gate(t, S) ==
    IF ~ValidateToken(t) THEN "TokenInvalid"
    ELSE GateDecision("isBlacklisted" \in S, IsBlacklisted(store, t))

\* the gate's calls, and what is true of the token it is given
GateCalls(t) == Flag(ValidateToken(t), "isBlacklisted")
GateFacts(t) ==
    Flag(ValidateToken(t), "valid")
      \cup (IF ValidateToken(t)
            THEN {tokens[t].kind} \cup Flag(IsBlacklisted(store, t), "blacklisted")
                                  \cup Flag(t \in revoked, "revoked")
            ELSE {})

\* a request to any other protected route: only the gate matters
Middleware(sc, t) ==
    /\ Ready
    /\ \E S \in Faults(sc, {"isBlacklisted"}) :
      /\ Respond(Report("Middleware", Gate(t, S), "", 0, t, 0, {}, {}, GateFacts(t)),
                 S, GateCalls(t))
      /\ UNCHANGED <<now, users, tokens, evTokens, store, exchanged, revoked, streak>>

\* POST /logout: the gate, then AuthHandler.Logout with
\* JWTAuthMiddleware.BlacklistToken
Logout(sc, t) ==
    /\ Ready
    /\ \E S \in Faults(sc, {"isBlacklisted", "blacklist", "untrack"}) :
      IF Gate(t, S) # "admitted"
      THEN /\ Respond(Report("Logout", Gate(t, S), "", 0, t, 0, {}, {}, GateFacts(t)),
                      S, GateCalls(t))
           /\ UNCHANGED <<now, users, tokens, evTokens, store, exchanged, revoked, streak>>
      ELSE
        LET claims == Claims(t)
            ttl == GetTokenRemainingTime(claims)
        IN
        IF ~ValidateToken(t)
        THEN /\ Respond(Report("Logout", "TokenInvalid", "", 0, t, 0, {}, {},
                               GateFacts(t)),
                        S, GateCalls(t))
             /\ UNCHANGED <<now, users, tokens, evTokens, store, exchanged, revoked, streak>>
        ELSE IF ttl <= 0
        THEN /\ Respond(Report("Logout", "ok", "", claims.UserID, t, 0, {}, {},
                               GateFacts(t) \cup {"expired"}),
                        S, GateCalls(t))
             /\ UNCHANGED <<now, users, tokens, evTokens, store, exchanged, revoked, streak>>
        ELSE IF "blacklist" \in S
        THEN /\ Respond(Report("Logout", "StoreError", "", claims.UserID, t, 0, {}, {},
                               GateFacts(t)),
                        S, GateCalls(t) \cup {"blacklist"})
             /\ UNCHANGED <<now, users, tokens, evTokens, store, exchanged, revoked, streak>>
        ELSE
          LET s1 == Blacklist(store, t, ttl)
              tracked == claims.UserID # NoToken
          IN  /\ store' = IF tracked /\ "untrack" \notin S
                          THEN UntrackUserToken(s1, claims.UserID, t) ELSE s1
              /\ Respond(Report("Logout", "ok", "", claims.UserID, t, 0, {}, {},
                                GateFacts(t)),
                         S, GateCalls(t) \cup {"blacklist"} \cup Flag(tracked, "untrack"))
              /\ UNCHANGED <<now, users, tokens, evTokens, exchanged, revoked, streak>>

\* POST /logout-all: the gate, then AuthHandler.LogoutAllDevices for the
\* user id of the token's claims (the session count it reads first only
\* fills the response message)
LogoutAllDevices(sc, t) ==
    /\ Ready
    /\ \E S \in Faults(sc, {"isBlacklisted", "members", "revoke"}) :
      IF Gate(t, S) # "admitted"
      THEN /\ Respond(Report("LogoutAllDevices", Gate(t, S), "", 0, t, 0, {}, {},
                             GateFacts(t)),
                      S, GateCalls(t))
           /\ UNCHANGED <<now, users, tokens, evTokens, store, exchanged, revoked, streak>>
      ELSE
        LET uid == Claims(t).UserID
            toks == IF uid = NoToken THEN {} ELSE UserTokens(store, uid)
        IN
        IF "members" \in S
        THEN /\ Respond(Report("LogoutAllDevices", "StoreError", "", uid, t, 0, {}, toks,
                               GateFacts(t)),
                        S, GateCalls(t) \cup {"members"})
             /\ UNCHANGED <<now, users, tokens, evTokens, store, exchanged, revoked, streak>>
        ELSE IF toks # {} /\ "revoke" \in S
        THEN /\ Respond(Report("LogoutAllDevices", "StoreError", "", uid, t, 0, {}, toks,
                               GateFacts(t)),
                        S, GateCalls(t) \cup {"members", "revoke"})
             /\ UNCHANGED <<now, users, tokens, evTokens, store, exchanged, revoked, streak>>
        ELSE /\ store' = IF toks = {} THEN store ELSE RevokeAllUserTokens(store, uid)
             /\ revoked' = revoked \cup toks
             /\ Respond(Report("LogoutAllDevices", "ok", "", uid, t, 0, {}, toks,
                               GateFacts(t)),
                        S, GateCalls(t) \cup {"members"} \cup Flag(toks # {}, "revoke"))
             /\ UNCHANGED <<now, users, tokens, evTokens, exchanged, streak>>

\* UserUseCase.UpdateUser setting is_active
UpdateUser(sc, uid, isActive) ==
    /\ Ready
    /\ uid \in 1..Len(users)
    /\ users[uid].active # isActive
    /\ \E S \in Faults(sc, {"repo"}) :
      /\ users' = IF "repo" \in S THEN users
                  ELSE [users EXCEPT ![uid].active = isActive]
      /\ Respond(Report("UpdateUser", IF "repo" \in S THEN "RepoError" ELSE "ok",
                        "", uid, 0, 0, {}, {}, {}),
                 S, {"repo"})
      /\ UNCHANGED <<now, tokens, evTokens, store, exchanged, revoked, streak>>

\* what ChangePassword answers once the new password is saved: an error of
\* RevokeAllUserTokens is logged and dropped
ChangePasswordResult(S) == "ok"

\* UserUseCase.ChangePassword behind PUT /me/password, for the user id the
\* gate has taken from the token
ChangePassword(sc, uid, oldPassword, newPassword) ==
    /\ Ready
    /\ \E S \in Faults(sc, {"repo", "save", "members", "revoke"}) :
      LET toks == IF uid <= Len(users) THEN UserTokens(store, uid) ELSE {}
      IN
      IF "repo" \in S
      THEN /\ Respond(Report("ChangePassword", "RepoError", "", uid, 0, 0, {}, toks, {}),
                      S, {"repo"})
           /\ UNCHANGED <<now, users, tokens, evTokens, store, exchanged, revoked, streak>>
      ELSE IF uid > Len(users)
      THEN /\ Respond(Report("ChangePassword", "UserNotFound", "", uid, 0, 0, {}, toks,
                             {}), S, {})
           /\ UNCHANGED <<now, users, tokens, evTokens, store, exchanged, revoked, streak>>
      ELSE IF ~Verify(oldPassword, users[uid].pw)
      THEN /\ Respond(Report("ChangePassword", "WrongPassword", "", uid, 0, 0, {}, toks,
                             {}), S, {})
           /\ UNCHANGED <<now, users, tokens, evTokens, store, exchanged, revoked, streak>>
      ELSE IF "save" \in S
      THEN /\ Respond(Report("ChangePassword", "RepoError", "", uid, 0, 0, {}, toks, {}),
                      S, {"save"})
           /\ UNCHANGED <<now, users, tokens, evTokens, store, exchanged, revoked, streak>>
      ELSE
        LET done == "members" \notin S /\ (toks = {} \/ "revoke" \notin S)
        IN  /\ users' = [users EXCEPT ![uid].pw = newPassword]
            /\ store' = IF done THEN RevokeAllUserTokens(store, uid) ELSE store
            /\ revoked' = IF done THEN revoked \cup toks ELSE revoked
            /\ Respond(Report("ChangePassword", ChangePasswordResult(S), "", uid, 0, 0,
                              {}, toks, {}),
                       S, {"members"} \cup Flag("members" \notin S /\ toks # {}, "revoke"))
            /\ UNCHANGED <<now, tokens, evTokens, exchanged, streak>>

\* ResendVerificationEmail: a fresh verification token for a user who is
\* not verified yet, at most one per cooldown
ResendVerificationEmail(sc, uid) ==
    /\ Ready
    /\ \E S \in Faults(sc, {"repo", "canResend", "invalidateAll", "generateToken",
                            "setCooldown", "sendEmail"}) :
      LET facts == Flag(uid <= Len(users) /\ ~users[uid].verified, "unverified")
                     \cup Flag(~CanResend(store, uid), "cooldown")
      IN
      IF "repo" \in S
      THEN /\ Respond(Report("ResendVerificationEmail", "RepoError", "", uid, 0, 0,
                             {}, {}, facts), S, {"repo"})
           /\ UNCHANGED <<now, users, tokens, evTokens, store, exchanged, revoked, streak>>
      ELSE IF uid > Len(users)
      THEN /\ Respond(Report("ResendVerificationEmail", "UserNotFound", "", uid, 0, 0,
                             {}, {}, facts), S, {})
           /\ UNCHANGED <<now, users, tokens, evTokens, store, exchanged, revoked, streak>>
      ELSE IF users[uid].verified
      THEN /\ Respond(Report("ResendVerificationEmail", "EmailAlreadyVerified", "", uid,
                             0, 0, {}, {}, facts), S, {})
           /\ UNCHANGED <<now, users, tokens, evTokens, store, exchanged, revoked, streak>>
      ELSE IF "canResend" \in S
      THEN /\ Respond(Report("ResendVerificationEmail", "StoreError", "", uid, 0, 0,
                             {}, {}, facts), S, {"canResend"})
           /\ UNCHANGED <<now, users, tokens, evTokens, store, exchanged, revoked, streak>>
      ELSE IF ~CanResend(store, uid)
      THEN /\ Respond([Report("ResendVerificationEmail", "ResendCooldown", "", uid, 0, 0,
                              {}, {}, facts)
                         EXCEPT !.remaining = TTLOf(store.cooldown[uid])], S, {})
           /\ UNCHANGED <<now, users, tokens, evTokens, store, exchanged, revoked, streak>>
      ELSE
        LET s1 == IF "invalidateAll" \in S THEN store
                  ELSE InvalidateAllUserTokens(store, uid)
        IN
        IF "generateToken" \in S
        THEN /\ store' = s1
             /\ Respond(Report("ResendVerificationEmail", "StoreError", "", uid, 0, 0,
                               {}, {}, facts), S, {"invalidateAll", "generateToken"})
             /\ UNCHANGED <<now, users, tokens, evTokens, exchanged, revoked, streak>>
        ELSE
          /\ Len(evTokens) < MaxEvTokens
          /\ LET v == Len(evTokens) + 1
                 s2 == GenerateToken(s1, uid, v)
                 cool == "setCooldown" \notin S
                 sent == "sendEmail" \notin S
             IN  /\ store' = IF cool THEN SetResendCooldown(s2, uid) ELSE s2
                 /\ evTokens' = Append(evTokens,
                                       Generated(uid, "ResendVerificationEmail", sent, cool))
                 \* the dispatcher's error is the handler's result
                 /\ Respond(Report("ResendVerificationEmail",
                                   IF sent THEN "ok" ELSE "EmailError",
                                   "", uid, v, 0, {}, {}, facts),
                            S, {"invalidateAll", "setCooldown", "sendEmail"})
          /\ UNCHANGED <<now, users, tokens, exchanged, revoked, streak>>

\* VerifyEmail: the holder of a stored verification token gets verified, and
\* the user's verification tokens are dropped (best effort)
VerifyEmail(sc, v) ==
    /\ Ready
    /\ \E S \in Faults(sc, {"validate", "repo", "save", "invalidateAll"}) :
      LET uid == ValidateEmailToken(store, v)
          facts == Flag(uid # NoToken, "stored")
      IN
      IF "validate" \in S \/ uid = NoToken
      THEN /\ Respond(Report("VerifyEmail", "InvalidVerificationToken", "", 0, v, 0,
                             {}, {}, facts), S, {"validate"})
           /\ UNCHANGED <<now, users, tokens, evTokens, store, exchanged, revoked, streak>>
      ELSE IF "repo" \in S
      THEN /\ Respond(Report("VerifyEmail", "RepoError", "", uid, v, 0, {}, {}, facts),
                      S, {"repo"})
           /\ UNCHANGED <<now, users, tokens, evTokens, store, exchanged, revoked, streak>>
      ELSE IF uid > Len(users)
      THEN /\ Respond(Report("VerifyEmail", "UserNotFound", "", uid, v, 0, {}, {}, facts),
                      S, {})
           /\ UNCHANGED <<now, users, tokens, evTokens, store, exchanged, revoked, streak>>
      ELSE IF users[uid].verified
      THEN /\ Respond(Report("VerifyEmail", "EmailAlreadyVerified", "", uid, v, 0,
                             {}, {}, facts), S, {})
           /\ UNCHANGED <<now, users, tokens, evTokens, store, exchanged, revoked, streak>>
      ELSE IF "save" \in S
      THEN /\ Respond(Report("VerifyEmail", "RepoError", "", uid, v, 0, {}, {}, facts),
                      S, {"save"})
           /\ UNCHANGED <<now, users, tokens, evTokens, store, exchanged, revoked, streak>>
      ELSE
        /\ users' = [users EXCEPT ![uid].verified = TRUE]
        /\ store' = IF "invalidateAll" \in S THEN store
                    ELSE InvalidateAllUserTokens(store, uid)
        /\ Respond(Report("VerifyEmail", "ok", "", uid, v, 0, {}, {}, facts),
                   S, {"invalidateAll"})
        /\ UNCHANGED <<now, tokens, evTokens, exchanged, revoked, streak>>

\* the response reaches the caller; the next call may start
Deliver ==
    /\ ~Ready
    /\ last' = Idle
    /\ UNCHANGED <<now, users, tokens, evTokens, store, exchanged, revoked, streak, faults,
                   inflight>>

\* ------------------------------------------------- interleaved ledger calls
\* Several API instances work on the shared store.  A ledger call is a
\* sequence of round trips; each round trip (one command, or one pipeline)
\* is a step, and the steps of different clients interleave.

\* SADD on a missing key creates a set that has no expiry until EXPIRE
NoExpiry == 99
\* redis TTL of user_tokens:{uid}: -2 no key, -1 no expiry
SetTTL(s, uid) ==
    IF s.userTokensExp[uid] = NoExpiry THEN 0 - 1 ELSE TTLOf(s.userTokensExp[uid])

Quiet == <<now, users, evTokens, last, exchanged, revoked, streak, faults>>

\* generateAuthResult has signed a token of this kind for uid and calls
\* TrackUserToken for it
TrackStart(p, uid, kind) ==
    /\ Ready
    /\ inflight[p].pc = "idle"
    /\ Len(tokens) < RaceTokens
    /\ LET t == IF kind = "access" THEN GenerateAccessTokenWithInfo(uid, "customer")
                ELSE GenerateRefreshTokenWithInfo(uid)
       IN  /\ tokens' = Append(tokens, t)
           /\ inflight' = [inflight EXCEPT ![p] =
                  [pc |-> "ttl", uid |-> uid, jti |-> Len(tokens) + 1,
                   ttl |-> Max(t.exp - now, MinTTL), currentTTL |-> 0, members |-> {}, name |-> "", pw |-> "", n |-> 0]]
    /\ UNCHANGED <<store, Quiet>>

\* TrackUserToken: client.TTL(user_tokens:{uid})
TrackReadTTL(p) ==
    /\ inflight[p].pc = "ttl"
    /\ inflight' = [inflight EXCEPT ![p].pc = "pipeline",
                                    ![p].currentTTL = SetTTL(store, inflight[p].uid)]
    /\ UNCHANGED <<store, tokens, Quiet>>

\* TrackUserToken: the SADD / EXPIRE / SET pipeline, EXPIRE only when the TTL
\* read before asks for it
TrackPipeline(p) ==
    /\ inflight[p].pc = "pipeline"
    /\ LET c == inflight[p]
           members == UserTokens(store, c.uid)
       IN  store' = [store EXCEPT
               !.userTokens[c.uid] = members \cup {c.jti},
               !.userTokensExp[c.uid] =
                   IF c.currentTTL < 0 \/ c.ttl > c.currentTTL THEN now + c.ttl
                   ELSE IF Present(@) THEN @ ELSE NoExpiry,
               !.tokenUser[c.jti] = [uid |-> c.uid, exp |-> now + c.ttl]]
    /\ inflight' = [inflight EXCEPT ![p] = NoCall]
    /\ UNCHANGED <<tokens, Quiet>>

\* tokens whose tracking call has returned: their holder can present them
Issued == {j \in 1..Len(tokens) : \A p \in Procs : inflight[p].jti # j}

\* the owner of token j has it revoked (RefreshToken's rotation, Logout)
RevokeStart(p, j) ==
    /\ Ready
    /\ inflight[p].pc = "idle"
    /\ j \in Issued
    /\ ValidateToken(j)
    /\ ~IsBlacklisted(store, j)
    /\ inflight' = [inflight EXCEPT ![p] =
           [pc |-> "blacklist", uid |-> tokens[j].sub, jti |-> j,
            ttl |-> 0, currentTTL |-> 0, members |-> {}, name |-> "", pw |-> "", n |-> 0]]
    /\ UNCHANGED <<store, tokens, Quiet>>

\* blacklistService.Blacklist(jti, remaining TTL)
RevokeBlacklist(p) ==
    /\ inflight[p].pc = "blacklist"
    /\ LET ttl == GetTokenRemainingTime(Claims(inflight[p].jti))
       IN  store' = IF ttl > 0 THEN Blacklist(store, inflight[p].jti, ttl) ELSE store
    /\ inflight' = [inflight EXCEPT ![p].pc = "untrack"]
    /\ UNCHANGED <<tokens, Quiet>>

\* blacklistService.UntrackUserToken(userID, jti): the SREM / DEL pipeline
RevokeUntrack(p) ==
    /\ inflight[p].pc = "untrack"
    /\ store' = UntrackUserToken(store, inflight[p].uid, inflight[p].jti)
    /\ inflight' = [inflight EXCEPT ![p] = NoCall]
    /\ UNCHANGED <<tokens, Quiet>>

\* RevokeAllUserTokens: SMEMBERS of user_tokens:{uid}; an empty answer ends
\* the call
RevokeAllRead(p, uid) ==
    /\ Ready
    /\ inflight[p].pc = "idle"
    /\ UserTokens(store, uid) # {}
    /\ inflight' = [inflight EXCEPT ![p] =
           [NoCall EXCEPT !.pc = "revokeAll", !.uid = uid,
                          !.members = UserTokens(store, uid)]]
    /\ UNCHANGED <<store, tokens, Quiet>>

\* RevokeAllUserTokens: the pipeline that blacklists every member read
\* before, deletes its mapping, and deletes the set
RevokeAllPipeline(p) ==
    /\ inflight[p].pc = "revokeAll"
    /\ LET c == inflight[p]
       IN  store' = [store EXCEPT
               !.blacklist = [j \in JTIs |->
                   IF j \in c.members THEN now + DefaultBlacklistTTL ELSE @[j]],
               !.tokenUser = [j \in JTIs |->
                   IF j \in c.members THEN NoMapping ELSE @[j]],
               !.userTokens[c.uid] = {},
               !.userTokensExp[c.uid] = NoKey]
    /\ inflight' = [inflight EXCEPT ![p] = NoCall]
    /\ UNCHANGED <<tokens, Quiet>>

\* ------------------------------------------------ TrackUserToken by itself
\* the TTLs a caller can hand over: any duration, the ones under the
\* one-second floor included
TTLInputs == (0 - 1)..MaxTTL

\* one whole TrackUserToken call for a JTI not seen before; the report
\* carries the calls made on the live set since it was absent, as long as
\* no time has passed and no other call came in between
TrackCall(uid, jti, ttl) ==
    /\ last.op \in {"none", "TrackUserToken"}
    /\ \A u \in UserIds : jti \notin UserTokens(store, u)
    /\ ~Present(store.tokenUser[jti].exp)
    /\ LET fresh == ~Present(store.userTokensExp[uid])
           prior == IF last.op = "TrackUserToken" /\ last.uid = uid THEN last.pre ELSE {}
           calls == IF fresh THEN {<<jti, ttl>>}
                    ELSE IF prior # {} THEN prior \cup {<<jti, ttl>>}
                    ELSE {}
       IN  last' = [Report("TrackUserToken", "ok", "", uid, jti, 0, {}, calls, {})
                      EXCEPT !.remaining = ttl]
    /\ store' = TrackUserToken(store, uid, jti, ttl)
    /\ UNCHANGED <<now, users, tokens, evTokens, exchanged, revoked, streak, faults,
                   inflight>>

\* RefreshToken round trip by round trip, no old access token given:
\* ValidateToken and the IsBlacklisted lookup of the refresh token
RefreshCheck(p, rt) ==
    /\ inflight[p].pc = "idle"
    /\ IF ValidateToken(rt) /\ ~IsBlacklisted(store, rt)
       THEN /\ inflight' = [inflight EXCEPT ![p] =
                   [pc |-> "revoke",
                    uid |-> IF Claims(rt).Subject # NoToken THEN Claims(rt).Subject
                            ELSE Claims(rt).UserID,
                    jti |-> rt, ttl |-> 0, currentTTL |-> 0, members |-> {}, name |-> "", pw |-> "", n |-> 0]]
            /\ UNCHANGED <<store, tokens, Quiet>>
       ELSE /\ Ready
            /\ last' = Report("RefreshToken", "InvalidToken", "", 0, rt, 0, {}, {},
                              Flag(rt \in exchanged, "reuse"))
            /\ UNCHANGED <<now, users, tokens, evTokens, store, exchanged, revoked,
                           streak, faults, inflight>>

\* RefreshToken: Blacklist and UntrackUserToken of the refresh token
RefreshRevoke(p) ==
    /\ inflight[p].pc = "revoke"
    /\ store' = RevokeOld(store, inflight[p].uid, inflight[p].jti, FALSE, FALSE)
    /\ inflight' = [inflight EXCEPT ![p].pc = "mint"]
    /\ UNCHANGED <<tokens, Quiet>>

\* RefreshToken: FindByID, the activity check and generateAuthResult
RefreshMint(p, cap) ==
    /\ inflight[p].pc = "mint"
    /\ Ready
    /\ LET c == inflight[p]
           flags == {"valid", tokens[c.jti].kind} \cup Flag(c.jti \in exchanged, "reuse")
       IN  IF ~users[c.uid].active
           THEN /\ last' = Report("RefreshToken", "UserInactive", "", c.uid, c.jti, 0,
                                  {}, {}, flags)
                /\ UNCHANGED <<tokens, store, exchanged>>
           ELSE /\ Len(tokens) + 2 <= cap
                /\ LET g == generateAuthResult(store, c.uid, users[c.uid].role, {})
                   IN  /\ store' = g.store
                       /\ tokens' = g.tokens
                       /\ last' = Report("RefreshToken", "ok", "", c.uid, c.jti, 0,
                                         {g.access, g.refresh}, {}, flags)
                /\ exchanged' = exchanged \cup {c.jti}
    /\ inflight' = [inflight EXCEPT ![p] = NoCall]
    /\ UNCHANGED <<now, users, evTokens, revoked, streak, faults>>

\* ------------------------------------------------- the codec by itself
\* GenerateAccessTokenWithInfo for any user id and role; the report keeps
\* the two inputs (the role under name) and the token returned
IssueAccess(uid, role) ==
    /\ Ready
    /\ Len(tokens) < CodecTokens
    /\ tokens' = Append(tokens, GenerateAccessTokenWithInfo(uid, role))
    /\ last' = [Report("GenerateAccessToken", "ok", role, uid, Len(tokens) + 1, 0,
                       {Len(tokens) + 1}, {}, {})
                  EXCEPT !.remaining = AccessTokenTTL]
    /\ UNCHANGED <<now, users, evTokens, store, exchanged, revoked, streak, faults,
                   inflight>>

\* time passes while the caller holds the token it was given
TickHolding ==
    /\ last.op = "GenerateAccessToken"
    /\ now < MaxTime
    /\ now' = now + 1
    /\ store' = Expire(store, now + 1)
    /\ UNCHANGED <<users, tokens, evTokens, last, exchanged, revoked, streak, faults,
                   inflight>>

\* one whole UntrackUserToken call, for any user id and JTI, the empty ones
\* included; the report says whether it repeats the call before it, and
\* whether that pair of calls found the JTI in the live set
UntrackCall(uid, jti) ==
    /\ last.op \in {"none", "TrackUserToken", "UntrackUserToken"}
    /\ LET again == last.op = "UntrackUserToken" /\ last.uid = uid /\ last.tok = jti
           found == uid # NoToken /\ jti \in UserTokens(store, uid)
       IN  last' = Report("UntrackUserToken", "ok", "", uid, jti, 0, {}, {},
                          Flag(again, "again")
                            \cup Flag(found \/ (again /\ "found" \in last.flags), "found"))
    /\ store' = UntrackUserToken(store, uid, jti)
    /\ UNCHANGED <<now, users, tokens, evTokens, exchanged, revoked, streak, faults,
                   inflight>>

\* ------------------------------------------- Login round trip by round trip
\* Login: the IsLocked lookup; a locked username is answered at once
LoginCheck(p, u, pw) ==
    /\ inflight[p].pc = "idle"
    /\ IF IsLocked(store, u)
       THEN /\ Ready
            /\ last' = [Report("Login", "AccountLocked", u, FindByUsername(u), 0, 0,
                                {}, {}, {"locked"})
                          EXCEPT !.remaining = GetRemainingLockTime(store, u)]
            /\ UNCHANGED <<now, users, tokens, evTokens, store, exchanged, revoked,
                           streak, faults, inflight>>
       ELSE /\ inflight' = [inflight EXCEPT ![p] =
                   [NoCall EXCEPT !.pc = "credentials", !.name = u, !.pw = pw]]
            /\ UNCHANGED <<store, tokens, Quiet>>

\* Login: FindByUsername and the password check fail, and IncrementAttempts
\* sends its INCR + EXPIRE pipeline; n is what INCR answers. An inactive
\* user is turned away without counting
LoginFail(p) ==
    /\ inflight[p].pc = "credentials"
    /\ LET c == inflight[p]
       IN  /\ Credentials(c.name, c.pw) # "match"
           /\ IF Credentials(c.name, c.pw) = "inactive" \/ ~store.guardEnabled
              THEN /\ inflight' = [inflight EXCEPT ![p].pc = "counted"]
                   /\ UNCHANGED <<store, streak>>
              ELSE /\ CanCount(c.name)
                   /\ store' = IncrCounter(store, c.name)
                   /\ streak' = [streak EXCEPT ![c.name] = @ + 1]
                   /\ inflight' = [inflight EXCEPT ![p].pc = "counted",
                                       ![p].n = Attempts(IncrCounter(store, c.name), c.name)]
    /\ UNCHANGED <<now, users, tokens, evTokens, last, exchanged, revoked, faults>>

\* Login: IncrementAttempts writes the lock when its count has reached the
\* threshold, and the call returns
LoginReturn(p) ==
    /\ inflight[p].pc = "counted"
    /\ Ready
    /\ LET c == inflight[p]
       IN  /\ store' = IF c.n >= MaxAttempts THEN Lock(store, c.name) ELSE store
           /\ last' = [Report("Login",
                               IF Credentials(c.name, c.pw) = "inactive"
                               THEN "UserInactive" ELSE "InvalidCredentials",
                               c.name, FindByUsername(c.name), 0, 0, {}, {},
                               {Credentials(c.name, c.pw)})
                         EXCEPT !.remaining = c.n]
    /\ inflight' = [inflight EXCEPT ![p] = NoCall]
    /\ UNCHANGED <<now, users, tokens, evTokens, exchanged, revoked, streak, faults>>

\* Login: the credentials match; ResetAttempts and generateAuthResult
LoginGrant(p, cap) ==
    /\ inflight[p].pc = "credentials"
    /\ Ready
    /\ Len(tokens) + 2 <= cap
    /\ LET c == inflight[p]
           uid == FindByUsername(c.name)
       IN  /\ Credentials(c.name, c.pw) = "match"
           /\ LET g == generateAuthResult(ResetAttempts(store, c.name), uid,
                                          users[uid].role, {})
              IN  /\ store' = g.store
                  /\ tokens' = g.tokens
                  /\ last' = Report("Login", "ok", c.name, uid, 0, 0,
                                    {g.access, g.refresh}, {},
                                    {"match"} \cup Flag(IsLocked(store, c.name), "locked")
                                      \cup Flag(Attempts(store, c.name) > 0, "counted"))
           /\ streak' = [streak EXCEPT ![c.name] = 0]
    /\ inflight' = [inflight EXCEPT ![p] = NoCall]
    /\ UNCHANGED <<now, users, evTokens, exchanged, revoked, faults>>

\* ------------------------- ResendVerificationEmail round trip by round trip
\* FindByID, the verified check and the CanResend lookup
ResendCheck(p, uid) ==
    /\ inflight[p].pc = "idle"
    /\ uid <= Len(users)
    /\ ~users[uid].verified
    /\ IF CanResend(store, uid)
       THEN /\ inflight' = [inflight EXCEPT ![p] =
                   [NoCall EXCEPT !.pc = "invalidate", !.uid = uid]]
            /\ UNCHANGED <<store, tokens, Quiet>>
       ELSE /\ Ready
            /\ last' = [Report("ResendVerificationEmail", "ResendCooldown", "", uid, 0,
                                0, {}, {}, {"unverified", "cooldown"})
                          EXCEPT !.remaining = TTLOf(store.cooldown[uid])]
            /\ UNCHANGED <<now, users, tokens, evTokens, store, exchanged, revoked,
                           streak, faults, inflight>>

\* InvalidateAllUserTokens
ResendInvalidate(p) ==
    /\ inflight[p].pc = "invalidate"
    /\ store' = InvalidateAllUserTokens(store, inflight[p].uid)
    /\ inflight' = [inflight EXCEPT ![p].pc = "generate"]
    /\ UNCHANGED <<tokens, Quiet>>

\* GenerateToken
ResendGenerate(p) ==
    /\ inflight[p].pc = "generate"
    /\ Len(evTokens) < MaxEvTokens
    /\ store' = GenerateToken(store, inflight[p].uid, Len(evTokens) + 1)
    /\ evTokens' = Append(evTokens, Generated(inflight[p].uid, "ResendVerificationEmail",
                                               TRUE, TRUE))
    /\ inflight' = [inflight EXCEPT ![p].pc = "cooldown", ![p].jti = Len(evTokens) + 1]
    /\ UNCHANGED <<now, users, tokens, last, exchanged, revoked, streak, faults>>

\* SetResendCooldown, and the email is handed to the dispatcher
ResendSend(p) ==
    /\ inflight[p].pc = "cooldown"
    /\ Ready
    /\ store' = SetResendCooldown(store, inflight[p].uid)
    /\ last' = Report("ResendVerificationEmail", "ok", "", inflight[p].uid,
                      inflight[p].jti, 0, {}, {}, {"unverified"})
    /\ inflight' = [inflight EXCEPT ![p] = NoCall]
    /\ UNCHANGED <<now, users, tokens, evTokens, exchanged, revoked, streak, faults>>

\* -------------------------------------------------------- specifications
\* token strings a client can present: anything signed so far, or garbage
TokenInputs == 0..Len(tokens)

GuardCalls == {"isLocked", "lockTTL", "repo", "incr", "lock", "reset"}
LedgerCalls == {"isBlacklisted", "blacklist", "untrack", "blacklistOld", "untrackOld",
                "members", "revoke"}

\* the account side: registration, login and the administrator's switch,
\* for one username under attack
GuardScope ==
    [names |-> {"alice"}, pws |-> Passwords, cap |-> FewTokens, calls |-> GuardCalls]

NextGuard ==
    \/ Tick
    \/ Deliver
    \/ \E pw \in GuardScope.pws : Register(GuardScope, "alice", "a@x", pw)
    \/ \E u \in GuardScope.names, pw \in GuardScope.pws : Login(GuardScope, u, pw)
    \/ \E uid \in UserIds, b \in BOOLEAN : UpdateUser(GuardScope, uid, b)

SpecGuard == Init /\ [][NextGuard]_vars

\* the same account side over a store and a repository that never fail
AccountsScope ==
    [names |-> {"alice"}, pws |-> Passwords, cap |-> FewTokens, calls |-> {}]

NextAccounts ==
    \/ Tick
    \/ Deliver
    \/ \E pw \in AccountsScope.pws : Register(AccountsScope, "alice", "a@x", pw)
    \/ \E u \in AccountsScope.names, pw \in AccountsScope.pws : Login(AccountsScope, u, pw)
    \/ \E uid \in UserIds, b \in BOOLEAN : UpdateUser(AccountsScope, uid, b)

SpecAccounts == Init /\ [][NextAccounts]_vars

\* rotation chains: one session refreshed again and again
RotationScope ==
    [names |-> {"alice"}, pws |-> {"pw1"}, cap |-> MaxTokens, calls |-> LedgerCalls]

NextRotation ==
    \/ Tick
    \/ Deliver
    \/ Register(RotationScope, "alice", "a@x", "pw1")
    \/ \E rt \in TokenInputs, at \in TokenInputs : RefreshToken(RotationScope, rt, at)

SpecRotation == Init /\ [][NextRotation]_vars

\* the session side: two users' tokens logged out, revoked and presented
LedgerScope ==
    [names |-> Usernames, pws |-> {"pw1"}, cap |-> FewTokens, calls |-> LedgerCalls]

NextLedger ==
    \/ Tick
    \/ Deliver
    \/ \E r \in {<<"alice", "a@x">>, <<"bob", "b@x">>} :
           Register(LedgerScope, r[1], r[2], "pw1")
    \/ Login(LedgerScope, "alice", "pw1")
    \/ \E t \in TokenInputs : Logout(LedgerScope, t)
    \/ \E t \in TokenInputs : LogoutAllDevices(LedgerScope, t)
    \/ \E t \in TokenInputs : Middleware(LedgerScope, t)

SpecLedger == Init /\ [][NextLedger]_vars

\* concurrent tracking and revocation of one user's tokens
NextRace ==
    \/ Tick
    \/ \E p \in Procs, kind \in {"access", "refresh"} : TrackStart(p, 1, kind)
    \/ \E p \in Procs : TrackReadTTL(p)
    \/ \E p \in Procs : TrackPipeline(p)
    \/ \E p \in Procs, j \in JTIs : RevokeStart(p, j)
    \/ \E p \in Procs : RevokeBlacklist(p)
    \/ \E p \in Procs : RevokeUntrack(p)

SpecRace == Init /\ [][NextRace]_vars

\* concurrent RefreshToken calls of one user's clients
RefreshRaceScope ==
    [names |-> {"alice"}, pws |-> {"pw1"}, cap |-> MaxTokens, calls |-> {}]

NextRefreshRace ==
    \/ Tick
    \/ Deliver
    \/ Register(RefreshRaceScope, "alice", "a@x", "pw1")
    \/ \E p \in Procs, rt \in TokenInputs : RefreshCheck(p, rt)
    \/ \E p \in Procs : RefreshRevoke(p)
    \/ \E p \in Procs : RefreshMint(p, RefreshRaceScope.cap)

SpecRefreshRace == Init /\ [][NextRefreshRace]_vars

\* rotation for a principal the administrator switches off and on, over a
\* ledger whose revocation writes can fail
InactiveScope ==
    [names |-> {"alice"}, pws |-> {"pw1"}, cap |-> FewTokens,
     calls |-> {"blacklist", "untrack"}]

NextInactive ==
    \/ Tick
    \/ Deliver
    \/ Register(InactiveScope, "alice", "a@x", "pw1")
    \/ \E uid \in UserIds, b \in BOOLEAN : UpdateUser(InactiveScope, uid, b)
    \/ \E rt \in TokenInputs, at \in TokenInputs : RefreshToken(InactiveScope, rt, at)

SpecInactive == Init /\ [][NextInactive]_vars

\* LogoutAllDevices of a user while tokens are issued to the same user
NextLogoutRace ==
    \/ Tick
    \/ \E p \in Procs, kind \in {"access", "refresh"} : TrackStart(p, 1, kind)
    \/ \E p \in Procs : TrackReadTTL(p)
    \/ \E p \in Procs : TrackPipeline(p)
    \/ \E p \in Procs : RevokeAllRead(p, 1)
    \/ \E p \in Procs : RevokeAllPipeline(p)

SpecLogoutRace == Init /\ [][NextLogoutRace]_vars

\* email verification: registration, resending and redeeming the token
VerifyCalls == {"canResend", "invalidateAll", "generateToken", "setCooldown", "sendEmail",
                "validate", "save"}
VerifyScope ==
    [names |-> {"alice"}, pws |-> {"pw1"}, cap |-> MaxTokens, calls |-> VerifyCalls]

NextVerify ==
    \/ Tick
    \/ Deliver
    \/ Register(VerifyScope, "alice", "a@x", "pw1")
    \/ \E uid \in UserIds : ResendVerificationEmail(VerifyScope, uid)
    \/ \E v \in EvIds : VerifyEmail(VerifyScope, v)

SpecVerify == Init /\ [][NextVerify]_vars

\* issuing token pairs over a ledger whose tracking writes can fail
IssueScope ==
    [names |-> {"alice"}, pws |-> {"pw1"}, cap |-> FewTokens, calls |-> TrackCalls]

NextIssue ==
    \/ Tick
    \/ Deliver
    \/ Register(IssueScope, "alice", "a@x", "pw1")
    \/ Login(IssueScope, "alice", "pw1")
    \/ \E rt \in TokenInputs, at \in TokenInputs : RefreshToken(IssueScope, rt, at)

SpecIssue == Init /\ [][NextIssue]_vars

\* TrackUserToken calls one after another
NextTrackOrder ==
    \/ Tick
    \/ Deliver
    \/ \E uid \in UserIds, jti \in 1..RaceTokens, ttl \in TTLInputs :
           TrackCall(uid, jti, ttl)

SpecTrackOrder == Init /\ [][NextTrackOrder]_vars

\* failed Logins of several clients for usernames nobody has registered, at
\* one instant
NextIncrRace ==
    \/ Deliver
    \/ \E p \in Procs, u \in Usernames : LoginCheck(p, u, "pw1")
    \/ \E p \in Procs : LoginFail(p)
    \/ \E p \in Procs : LoginReturn(p)

SpecIncrRace == Init /\ [][NextIncrRace]_vars

\* Logins of several clients, right and wrong passwords mixed, for one
\* registered username
LoginRaceScope ==
    [names |-> {"alice"}, pws |-> {"pw1"}, cap |-> FewTokens, calls |-> {}]

NextLoginRace ==
    \/ Tick
    \/ Deliver
    \/ Register(LoginRaceScope, "alice", "a@x", "pw1")
    \/ \E p \in Procs, pw \in Passwords : LoginCheck(p, "alice", pw)
    \/ \E p \in Procs : LoginFail(p)
    \/ \E p \in Procs : LoginReturn(p)
    \/ \E p \in Procs : LoginGrant(p, LoginRaceScope.cap)

SpecLoginRace == Init /\ [][NextLoginRace]_vars

\* two users' sessions refreshed with any pair of tokens, over a store that
\* never fails
CrossScope ==
    [names |-> Usernames, pws |-> {"pw1"}, cap |-> MaxTokens, calls |-> {}]

NextCross ==
    \/ Tick
    \/ Deliver
    \/ \E r \in {<<"alice", "a@x">>, <<"bob", "b@x">>} :
           Register(CrossScope, r[1], r[2], "pw1")
    \/ \E rt \in TokenInputs, at \in TokenInputs : RefreshToken(CrossScope, rt, at)

SpecCross == Init /\ [][NextCross]_vars

\* tokens presented at the gate and to RefreshToken as they age, over a
\* ledger that can fail
NextExpiry ==
    \/ Tick
    \/ Deliver
    \/ Register(RotationScope, "alice", "a@x", "pw1")
    \/ \E t \in TokenInputs : Middleware(RotationScope, t)
    \/ \E rt \in TokenInputs, at \in TokenInputs : RefreshToken(RotationScope, rt, at)

SpecExpiry == Init /\ [][NextExpiry]_vars

\* ResendVerificationEmail called by several clients of one unverified user
ResendRaceScope ==
    [names |-> {"alice"}, pws |-> {"pw1"}, cap |-> FewTokens, calls |-> {}]

NextResendRace ==
    \/ Tick
    \/ Deliver
    \/ Register(ResendRaceScope, "alice", "a@x", "pw1")
    \/ \E p \in Procs, uid \in UserIds : ResendCheck(p, uid)
    \/ \E p \in Procs : ResendInvalidate(p)
    \/ \E p \in Procs : ResendGenerate(p)
    \/ \E p \in Procs : ResendSend(p)

SpecResendRace == Init /\ [][NextResendRace]_vars

\* password changes of a user with sessions, over a repository and a ledger
\* that can fail
PasswordScope ==
    [names |-> {"alice"}, pws |-> Passwords, cap |-> FewTokens,
     calls |-> {"repo", "save", "members", "revoke"}]

NextPassword ==
    \/ Tick
    \/ Deliver
    \/ Register(PasswordScope, "alice", "a@x", "pw1")
    \/ \E pw \in PasswordScope.pws : Login(PasswordScope, "alice", pw)
    \/ \E uid \in UserIds, old \in Passwords, new \in Passwords :
           ChangePassword(PasswordScope, uid, old, new)
    \/ \E t \in TokenInputs : Middleware(PasswordScope, t)

SpecPassword == Init /\ [][NextPassword]_vars

\* registrations for any username and email, over a ledger and an email
\* dispatcher that can fail
RegisterCalls == {"generateToken", "setCooldown", "sendEmail"} \cup TrackCalls
RegisterScope ==
    [names |-> Usernames, pws |-> {"pw1"}, cap |-> FewTokens, calls |-> RegisterCalls]

NextRegister ==
    \/ Tick
    \/ Deliver
    \/ \E u \in RegisterScope.names, e \in Emails : Register(RegisterScope, u, e, "pw1")

SpecRegister == Init /\ [][NextRegister]_vars

\* access tokens signed for any user and role, and validated later
NextCodec ==
    \/ Tick
    \/ Deliver
    \/ TickHolding
    \/ \E uid \in UserIds, role \in Roles : IssueAccess(uid, role)

SpecCodec == Init /\ [][NextCodec]_vars

\* the account side with the login-attempt guard disabled
SpecGuardDisabled == InitGuardDisabled /\ [][NextAccounts]_vars

\* TrackUserToken and UntrackUserToken calls one after another
NextUntrack ==
    \/ Tick
    \/ Deliver
    \/ \E uid \in UserIds, jti \in 1..RaceTokens : TrackCall(uid, jti, AccessTokenTTL)
    \/ \E uid \in {NoToken} \cup UserIds, jti \in 0..RaceTokens : UntrackCall(uid, jti)

SpecUntrack == Init /\ [][NextUntrack]_vars

\* ------------------------------------------------------------ properties
\* a RefreshToken call given a validly signed, unexpired refresh token
RefreshReturned ==
    last.op = "RefreshToken" /\ "valid" \in last.flags /\ "refresh" \in last.flags
LoginReturned == last.op = "Login"

\* C1: a RefreshToken call that presents a refresh token an earlier call
\* has already exchanged for a new pair fails with InvalidToken and mints
\* nothing, as long as that token has not expired.
C1_ReuseRejected ==
    (RefreshReturned /\ "reuse" \in last.flags)
        => (last.res = "InvalidToken" /\ last.minted = {})

\* C2: once maxAttempts Login calls in a row have failed for a username,
\* whether its principal is active or not, the username is locked, and a
\* Login that finds the lock fails with AccountLocked whatever the password.
C2_LockedAfterMaxAttempts ==
    /\ \A u \in Usernames : streak[u] >= MaxAttempts => IsLocked(store, u)
    /\ (LoginReturned /\ "locked" \in last.flags) => last.res = "AccountLocked"

\* C3: a Login that fails because the principal is absent, inactive or the
\* password does not match fails with InvalidCredentials and has incremented
\* the attempt counter of the username exactly once.
C3_UniformFailure ==
    [][(last'.op = "Login" /\ "locked" \notin last'.flags
         /\ last'.flags \cap {"absent", "inactive", "mismatch"} # {})
        => (/\ last'.res = "InvalidCredentials"
            /\ Attempts(store', last'.name) = Attempts(store, last'.name) + 1)]_vars

\* C4: a token blacklisted by revokeAllUserTokens stays blacklisted for as
\* long as it validates, whatever its kind.
C4_RevokedStaysBlacklisted ==
    \A j \in revoked : ValidateToken(j) => IsBlacklisted(store, j)

\* the routes behind the gate
Protected == {"Middleware", "Logout", "LogoutAllDevices"}

\* C5: when the gate's blacklist lookup for a validly signed, unexpired token
\* fails, the request is rejected with the lookup failure: it is not
\* admitted, and the handler behind the gate is not run.
C5_GateFailClosed ==
    (last.op \in Protected /\ "valid" \in last.flags
       /\ "isBlacklisted" \in last.failed)
        => last.res = "BlacklistCheckFailed"

C5_LookupFailedAtGate ==
    /\ last.op = "Logout"
    /\ "valid" \in last.flags
    /\ "blacklisted" \notin last.flags
    /\ "isBlacklisted" \in last.failed
    /\ last.res = "BlacklistCheckFailed"

\* C6: a RefreshToken call whose blacklist lookup fails is rejected and
\* mints no tokens.
C6_LookupErrorRejects ==
    (RefreshReturned /\ "isBlacklisted" \in last.failed)
        => (last.res # "ok" /\ last.minted = {})

\* C7: a RefreshToken call whose blacklist write for the presented refresh
\* token fails mints nothing, and no call returns new tokens while the
\* presented refresh token is still valid and not blacklisted.
C7_BlacklistFailureAborts ==
    /\ (RefreshReturned /\ "blacklist" \in last.failed)
          => (last.res # "ok" /\ last.minted = {})
    /\ (RefreshReturned /\ last.res = "ok") => IsBlacklisted(store, last.tok)

\* the Login call was given the username and password of an active principal
MatchingLogin == LoginReturned /\ "match" \in last.flags
\* the token pair of a successful call names the principal
PairFor(uid) ==
    /\ Cardinality(last.minted) = 2
    /\ \A t \in last.minted : tokens[t].sub = uid

\* C8 as stated: a Login with a registered username and its password, none
\* of whose calls fails, succeeds with a token pair for the principal
\* Register created, whatever Login calls were made for the username before.
C8_LoginAfterRegister ==
    (MatchingLogin /\ last.failed = {})
        => (last.res = "ok" /\ PairFor(FindByUsername(last.name)))

\* C8: a Login with the username and password of an active registered
\* principal succeeds with a token pair for that principal, provided the
\* principal lookup succeeds and Login does not find the username locked
\* (failed Logins made before the registration count towards the lock).
C8_LoginAfterRegisterUnlessLocked ==
    (MatchingLogin /\ "repo" \notin last.failed
       /\ ~("locked" \in last.flags /\ "isLocked" \notin last.failed))
        => (last.res = "ok" /\ PairFor(FindByUsername(last.name)))

C8_LoginAfterEarlierFailures ==
    /\ MatchingLogin
    /\ "counted" \in last.flags
    /\ "locked" \notin last.flags
    /\ last.res = "ok"

\* C9: after LogoutAllDevices succeeds for a user, every JTI that was in the
\* user's live set is blacklisted and the user's active token count is 0.
C9_AllRevoked ==
    (last.op = "LogoutAllDevices" /\ last.res = "ok" /\ last.uid # NoToken)
        => (/\ \A j \in last.pre : IsBlacklisted(store, j)
            /\ GetUserActiveTokenCount(store, last.uid) = 0)

C9_ThreeTokensRevoked ==
    /\ last.op = "LogoutAllDevices"
    /\ last.res = "ok"
    /\ Cardinality(last.pre) >= 3

\* a Logout that has just succeeded for a valid access token
LogoutSucceeded == last.op = "Logout" /\ last.res = "ok" /\ "access" \in last.flags
\* the blacklist and live-set status of every JTI but t is what it was
OthersUntouched(t) ==
    \A j \in JTIs \ {t} :
        /\ IsBlacklisted(store', j) = IsBlacklisted(store, j)
        /\ \A i \in UserIds : (j \in UserTokens(store', i)) = (j \in UserTokens(store, i))

TrackWrites ==
    \E p \in Procs : inflight[p].pc = "pipeline" /\ inflight'[p].pc = "idle"

\* C11: whatever the interleaving of TrackUserToken calls for a user, no
\* call moves the expiry instant of the user's live set earlier.
C11_ExpiryNeverEarlier ==
    [][\A u \in UserIds :
          (TrackWrites /\ Present(store.userTokensExp[u])
             /\ store.userTokensExp[u] # NoExpiry)
            => store'.userTokensExp[u] >= store.userTokensExp[u]]_vars

\* C13: revoking a token is one atomic store step: in no state is a JTI
\* blacklisted and still a member of its user's live set.
C13_RevocationAtomic ==
    \A j \in 1..Len(tokens) :
        IsBlacklisted(store, j) => \A u \in UserIds : j \notin UserTokens(store, u)

\* two TrackUserToken calls with TTLs s < l were made, in either order, on a
\* live set that was absent, with no time passing: a is the call with s,
\* b the call with l
TwoCalls(a, b) ==
    /\ last.op = "TrackUserToken"
    /\ last.pre = {a, b}
    /\ a[1] # b[1]
    /\ a[2] < b[2]
\* ... and they leave both JTIs in the set, whose remaining TTL is l
BothWithLonger(a, b) ==
    /\ UserTokens(store, last.uid) = {a[1], b[1]}
    /\ TTLOf(store.userTokensExp[last.uid]) = b[2]

TrackInputs == (1..RaceTokens) \X TTLInputs

\* C12 as stated: for any two TTLs s < l, the two calls in either order
\* leave both JTIs in the set with remaining TTL l.
C12_LongerTTLWins ==
    \A a \in TrackInputs, b \in TrackInputs :
        TwoCalls(a, b) => BothWithLonger(a, b)

\* C12: for any two TTLs s < l with l at least the one-second floor of the
\* ledger, the two calls in either order leave both JTIs in the set with
\* remaining TTL l (a TTL under the floor is raised to it).
C12_LongerTTLWinsAboveFloor ==
    \A a \in TrackInputs, b \in TrackInputs :
        (TwoCalls(a, b) /\ b[2] >= MinTTL) => BothWithLonger(a, b)

\* the short call came second
C12_ShortAfterLong ==
    \E a \in TrackInputs, b \in TrackInputs :
        /\ TwoCalls(a, b)
        /\ b[2] >= MinTTL
        /\ last.tok = a[1]
        /\ a[2] >= MinTTL

\* C14: in every state the active-token count of a user is the number of
\* members of the user's live set that are not blacklisted, the length of
\* the list of active tokens.
C14_CountIsFiltered ==
    \A u \in UserIds :
        GetUserActiveTokenCount(store, u) = Cardinality(GetUserActiveTokens(store, u))

\* C15: every AccountLocked error returned by Login carries a number of
\* remaining seconds greater than zero.
C15_LockedCarriesRemaining ==
    (last.op = "Login" /\ last.res = "AccountLocked") => last.remaining > 0

\* C16: a Login made while the lock of its username exists fails with
\* AccountLocked and leaves the counter, the lock, the blacklist and the live
\* sets as they were, whatever the credentials.
C16_LockedLoginChangesNothing ==
    [][(last'.op = "Login" /\ "locked" \in last'.flags)
          => (last'.res = "AccountLocked" /\ store' = store)]_vars

\* ResendVerificationEmail has just been called for a user who is not
\* verified, and the token v came from an earlier call of it for the same
\* user that succeeded less than a cooldown ago
ResentWithinCooldown(v) ==
    /\ last.op = "ResendVerificationEmail"
    /\ "unverified" \in last.flags
    /\ last.tok # v
    /\ evTokens[v].uid = last.uid
    /\ evTokens[v].by = "ResendVerificationEmail"
    /\ evTokens[v].ok
    /\ now < evTokens[v].at + CooldownTTL
\* the call is refused for the cooldown and generates no token
RefusedForCooldown ==
    /\ last.res = "ResendCooldown"
    /\ last.remaining > 0
    /\ last.tok = NoToken

C18_DispatchFailureSwallowed ==
    (last.op = "ResendVerificationEmail" /\ "sendEmail" \in last.failed)
        => last.res = "ok"

\* C19: once VerifyEmail has succeeded for a user, no verification token
\* generated for that user before, the redeemed one and its siblings, is
\* accepted by the ledger's validation any more.
C19_NoTokenLeftAfterVerify ==
    (last.op = "VerifyEmail" /\ last.res = "ok")
        => \A v \in 1..Len(evTokens) :
               evTokens[v].uid = last.uid => ValidateEmailToken(store, v) = NoToken

\* a handler that issues a token pair has returned with a tracking write failed
TrackingFailed(op) == last.op = op /\ last.failed \cap TrackCalls # {}
\* the pair returned: an access and a refresh token of the user, both valid
PairReturned ==
    /\ PairFor(last.uid)
    /\ \E a \in last.minted, r \in last.minted :
           /\ tokens[a].kind = "access" /\ ValidateToken(a)
           /\ tokens[r].kind = "refresh" /\ ValidateToken(r)

\* C20: tracking writes fail open: when TrackUserToken fails for a minted
\* JTI, Login, Register and RefreshToken still succeed and return the pair.
C20_TrackingFailOpen ==
    \A op \in {"Login", "Register", "RefreshToken"} :
        TrackingFailed(op) => (last.res = "ok" /\ PairReturned)

\* a rotation whose tracking write for the new refresh token failed
C20_RotationWithTrackingFailed ==
    /\ TrackingFailed("RefreshToken")
    /\ "trackRefresh" \in last.failed
    /\ last.res = "ok"

\* C21: UntrackUserToken is idempotent: a second call for the same user id
\* and JTI right after the first returns no error and leaves the live set and
\* the token-to-user mapping as the first call left them.
C21_UntrackIdempotent ==
    [][(/\ last.op = "UntrackUserToken"
        /\ last'.op = "UntrackUserToken"
        /\ last'.uid = last.uid
        /\ last'.tok = last.tok)
          => (last'.res = "ok" /\ store' = store)]_vars

\* the repeated call came after one that took the JTI out of a live set
\* which has other members
C21_RepeatedAfterRemoval ==
    /\ last.op = "UntrackUserToken"
    /\ {"again", "found"} \subseteq last.flags
    /\ UserTokens(store, last.uid) # {}

\* C22: with the login-attempt guard disabled every guard operation leaves
\* the store as it is and returns zero or false, so no row of failed Login
\* calls, however long, yields AccountLocked or a lock that IsLocked reports.
C22_DisabledGuardNeverLocks ==
    /\ store.attempts = EmptyStore.attempts
    /\ store.locked = EmptyStore.locked
    /\ \A u \in Usernames :
           /\ ~IsLocked(store, u)
           /\ Attempts(store, u) = 0
           /\ GetRemainingLockTime(store, u) = 0
    /\ last.res # "AccountLocked"

\* one more failed Login after maxAttempts failures in a row
C22_FailedBeyondMaxAttempts ==
    /\ ~store.guardEnabled
    /\ last.op = "Login"
    /\ last.res = "InvalidCredentials"
    /\ streak[last.name] >= MaxAttempts

\* Register is being called with a username or an email of a principal
\* that exists
RegisterTaken ==
    /\ last'.op = "Register"
    /\ \E i \in 1..Len(users) :
           users[i].username = last'.name \/ users[i].email = last'.email

\* C23: Register with a username or an email that already belongs to a
\* principal fails with Conflict and has no effect: no principal is
\* persisted, no verification token or cooldown marker is written, and no
\* access or refresh token is minted or tracked.
C23_ConflictHasNoEffect ==
    [][RegisterTaken
          => (/\ last'.res \in {"UsernameExists", "EmailExists"}
              /\ last'.minted = {}
              /\ users' = users
              /\ tokens' = tokens
              /\ evTokens' = evTokens
              /\ store' = store)]_vars

\* a Register refused for its email alone, the username being free
C23_EmailTaken ==
    /\ last.op = "Register"
    /\ last.res = "EmailExists"
    /\ ~ExistsByUsername(last.name)

\* Register got past its uniqueness checks and the verification-token or
\* the email step failed
EmailStepFailed ==
    last.op = "Register" /\ last.failed \cap {"generateToken", "sendEmail"} # {}
\* the principal of the report is persisted under the username and email
\* of the call
Persisted ==
    /\ last.uid \in 1..Len(users)
    /\ users[last.uid].username = last.name
    /\ users[last.uid].email = last.email

\* C24: Register succeeds and returns a token pair for the persisted
\* principal even when generating the verification token or dispatching the
\* verification email fails.
C24_RegisterDespiteEmailFailure ==
    EmailStepFailed => (last.res = "ok" /\ Persisted /\ PairReturned)

\* a registration whose verification token could not be generated
C24_NoVerificationToken ==
    /\ EmailStepFailed
    /\ "generateToken" \in last.failed
    /\ \A v \in 1..Len(evTokens) : evTokens[v].uid # last.uid

\* the caller holds the access token signed for last.uid and last.name
HoldsAccess == last.op = "GenerateAccessToken"

C26_SingleUseUnderConcurrency ==
    (last.op = "RefreshToken" /\ last.res = "ok") => "reuse" \notin last.flags

\* a RefreshToken call has returned a new pair and none of its calls failed
RotatedCleanly == last.op = "RefreshToken" /\ last.res = "ok" /\ last.failed = {}
\* t is revoked for the user of the call: out of the live set, and
\* blacklisted if it has not expired
RevokedFor(t) ==
    /\ t \notin UserTokens(store, last.uid)
    /\ now < tokens[t].exp => IsBlacklisted(store, t)

\* C27: after RefreshToken(R0, A0) has succeeded with no store failure, R0 is
\* blacklisted and not in the user's live set, A0 (when given) is not in the
\* live set and is blacklisted unless it had expired, and the two tokens
\* minted are in the live set and not blacklisted.
C27_FullRotation ==
    RotatedCleanly =>
        /\ IsBlacklisted(store, last.tok)
        /\ RevokedFor(last.tok)
        /\ last.old # NoToken => RevokedFor(last.old)
        /\ Cardinality(last.minted) = 2
        /\ \A t \in last.minted :
               t \in UserTokens(store, last.uid) /\ ~IsBlacklisted(store, t)

\* a rotation that was given the unexpired access token of its refresh token
C27_RotatedWithAccess ==
    /\ RotatedCleanly
    /\ last.old # NoToken
    /\ last.old # last.tok
    /\ tokens[last.old].kind = "access"
    /\ tokens[last.tok].kind = "refresh"
    /\ now < tokens[last.old].exp

\* RefreshToken has been called with a valid refresh token that was not
\* blacklisted, of a principal that is inactive
RefreshForInactive ==
    /\ RefreshReturned
    /\ "blacklisted" \notin last.flags
    /\ last.uid \in 1..Len(users)
    /\ ~users[last.uid].active

\* C28: RefreshToken with a valid refresh token, not blacklisted, of an
\* inactive principal fails with UserInactive and mints nothing, and the
\* refresh token is blacklisted and out of the live set all the same.
C28_InactiveStillRevokes ==
    RefreshForInactive =>
        /\ last.res = "UserInactive"
        /\ last.minted = {}
        /\ IsBlacklisted(store, last.tok)
        /\ last.tok \notin UserTokens(store, last.uid)

\* no ledger call is in progress
AllCompleted == \A p \in Procs : inflight[p].pc = "idle"

\* C29: whatever the interleaving of LogoutAllDevices with the issuing of
\* tokens to the same user, once every operation has completed each unexpired
\* token issued to the user is blacklisted or in the user's live set.
C29_NoTokenEscapes ==
    AllCompleted =>
        \A j \in 1..Len(tokens) :
            now < tokens[j].exp =>
                (IsBlacklisted(store, j) \/ j \in UserTokens(store, tokens[j].sub))

\* C30: token kinds are not interchangeable in RefreshToken: a call that
\* presents a valid access token where the refresh token belongs fails with
\* InvalidToken and mints nothing.
C30_AccessTokenNotExchanged ==
    (last.op = "RefreshToken" /\ {"valid", "access"} \subseteq last.flags)
        => (last.res = "InvalidToken" /\ last.minted = {})

\* every increment that reached the threshold has written its lock
LocksWritten(u) == \A p \in Procs : ~(inflight[p].pc = "counted" /\ inflight[p].name = u
                                       /\ inflight[p].n >= MaxAttempts)

C32_LockRemovedOnlyByTTL ==
    [][\A u \in Usernames :
          (IsLocked(store, u) /\ now' = now)
              => (IsLocked(store', u) /\ Attempts(store', u) >= Attempts(store, u))]_vars

\* C33: RefreshToken revokes only tokens of the refreshing subject: when the
\* old access token handed in belongs to another user than the refresh
\* token's subject, its blacklist status and its owner's live set are left
\* as they were.
C33_ForeignTokenUntouched ==
    [][(last.op = "none" /\ last'.op = "RefreshToken" /\ "valid" \in last'.flags
          /\ "blacklisted" \notin last'.flags
          /\ last'.old # NoToken /\ tokens[last'.old].sub # last'.uid)
        => /\ IsBlacklisted(store', last'.old) = IsBlacklisted(store, last'.old)
           /\ UserTokens(store', tokens[last'.old].sub)
                = UserTokens(store, tokens[last'.old].sub)]_vars

\* a token that was signed and whose expiresAt has passed
Expired(t) == t \in 1..Len(tokens) /\ tokens[t].exp <= now

\* C34: an expired token authorizes nothing: the gate turns a request with
\* an expired token away as TokenInvalid, and RefreshToken given an expired
\* refresh token fails with InvalidToken and mints nothing, whatever old
\* access token comes with it; an expired old access token is only untracked.
C34_ExpiredNeverAuthorizes ==
    /\ (last.op = "Middleware" /\ Expired(last.tok)) => last.res = "TokenInvalid"
    /\ (last.op = "RefreshToken" /\ Expired(last.tok))
          => (last.res = "InvalidToken" /\ last.minted = {})
    /\ (last.op = "RefreshToken" /\ last.old # NoToken /\ Expired(last.old))
          => /\ ~IsBlacklisted(store, last.old)
             /\ last.res = "ok" => ~Expired(last.tok)

\* an expired refresh token came with an expired access token
C34_BothExpired ==
    /\ last.op = "RefreshToken"
    /\ Expired(last.tok) /\ tokens[last.tok].kind = "refresh"
    /\ last.old # NoToken /\ Expired(last.old) /\ tokens[last.old].kind = "access"

\* C35: the lockout state machine returns to Clean: whenever a lock marker
\* expires by TTL the attempt counter of the username has expired no later,
\* so that the first failed Login after the lock has elapsed counts 1.
C35_ReturnsToClean ==
    [][\A u \in Usernames :
          (IsLocked(store, u) /\ ~IsLocked(store', u) /\ now' = now + 1)
              => Attempts(store', u) = 0]_vars

\* C36: the resend cooldown holds under concurrency: of the
\* ResendVerificationEmail calls for one unverified user within one cooldown
\* window at most one generates a token and has an email sent, and once they
\* have all returned at most one verification token of the user is valid.
C36_OneResendPerWindow ==
    /\ \A i, j \in 1..Len(evTokens) :
          (i < j /\ evTokens[i].uid = evTokens[j].uid
             /\ evTokens[i].by = "ResendVerificationEmail"
             /\ evTokens[j].by = "ResendVerificationEmail")
            => evTokens[j].at >= evTokens[i].at + CooldownTTL
    /\ AllCompleted =>
          \A uid \in UserIds :
              Cardinality({v \in EvIds : ValidateEmailToken(store, v) = uid}) <= 1

\* C37: after ChangePassword has returned success for a user, every token
\* tracked for the user before the change is blacklisted (so the gate admits
\* none of them and RefreshToken exchanges none).
C37_PasswordChangeRevokesAll ==
    (last.op = "ChangePassword" /\ last.res = "ok")
        => \A j \in last.pre : IsBlacklisted(store, j)

\* C38: after a successful Login for a username its attempt counter and any
\* lock are absent, so failures before the success do not add up with
\* failures after it.
C38_SuccessResetsGuard ==
    (last.op = "Login" /\ last.res = "ok")
        => (Attempts(store, last.name) = 0 /\ ~IsLocked(store, last.name))

====
